---- MODULE Spec2Model ----
(***************************************************************************)
(* Model of src/main.py: a Streamlit finance dashboard.  Every user        *)
(* interaction re-executes the script: the module-level statements         *)
(* (lines 172-185) reload the category document and the ledger snapshot,   *)
(* then main() (lines 78-169) handles the widget that triggered the run.   *)
(*                                                                         *)
(* Text values on which the code calls lower()/strip()/replace() are       *)
(* sequences of one-character strings; category names, dates and statuses  *)
(* are only compared for equality and stay atomic strings.                 *)
(***************************************************************************)
EXTENDS Integers, Sequences, FiniteSets, TLC

VARIABLES
    categories,   \* st.session_state.categories: None or Some(ordered dict)
    catFile,      \* categories.json: Absent or Some(JSON document)
    dataframe,    \* st.session_state.dataframe: None or Some(rows)
    parquet,      \* uploaded_files/bank_statements.parquet: Absent or Some
    debits_df,    \* st.session_state.debits_df: None or Some(rows)
    edited_df,    \* value returned by st.data_editor in the last run
    pc,           \* position of the script runner
    op,           \* widget handled by the last execution of main()
    st_error,     \* TRUE iff st.error() was called in the last main()
    exception,    \* uncaught exception that ended the last main()
    ret,          \* results of the add_keyword_to_category calls made
    args          \* arguments of a function called on its own

vars == <<categories, catFile, dataframe, parquet, debits_df, edited_df,
          pc, op, st_error, exception, ret, args>>

\* ------------------------------------------------------------------ bounds
MaxBatchLen == 2
MaxKeywords == 1

\* ------------------------------------------------------------- python data
\* a session key, a Python variable or a file holds either nothing or one
\* value: None (key unset or None) and Absent (no file) are the empty
\* sequence, Some(v) is a present value and Val gives it back
None == <<>>
Absent == <<>>
Some(v) == <<v>>
Val(o) == o[1]
NoException == "NoException"

Range(s) == {s[i] : i \in 1..Len(s)}

RECURSIVE SeqsUpTo(_, _)
SeqsUpTo(S, n) ==
    IF n = 0 THEN {<<>>}
    ELSE LET shorter == SeqsUpTo(S, n - 1)
         IN  shorter \cup {Append(s, x) : s \in {t \in shorter : Len(t) = n - 1}, x \in S}

\* str.lower() on one character
LowerChar(c) ==
    CASE c = "A" -> "a"
      [] c = "B" -> "b"
      [] OTHER -> c

\* str.lower()
lower(s) == [i \in 1..Len(s) |-> LowerChar(s[i])]

RECURSIVE lstrip(_)
lstrip(s) ==
    IF s # <<>> /\ Head(s) = " " THEN lstrip(Tail(s)) ELSE s

RECURSIVE rstrip(_)
rstrip(s) ==
    IF s # <<>> /\ s[Len(s)] = " " THEN rstrip(SubSeq(s, 1, Len(s) - 1)) ELSE s

\* str.strip()
strip(s) == rstrip(lstrip(s))

\* ordered dict helpers (a dict is a sequence of [name, keywords] items)
Keys(cats) == {cats[i].name : i \in 1..Len(cats)}
IndexOf(cats, name) == CHOOSE i \in 1..Len(cats) : cats[i].name = name
Get(cats, name) == cats[IndexOf(cats, name)].keywords

\* ------------------------------------------------------- categories.json
\* json.dump of a dict of str -> list of str: an object whose members are
\* written in the dict's iteration order
json_dump(cats) == [i \in 1..Len(cats) |-> <<cats[i].name, cats[i].keywords>>]

\* json.load: members become dict items in document order
json_load(doc) == [i \in 1..Len(doc) |-> [name |-> doc[i][1], keywords |-> doc[i][2]]]

\* a store that mutates the dict without writing the document
save_categories_skip(cats, file) == file

\* the document after save_categories() of the dict cats over the file
save_categories(cats, file) == Some(json_dump(cats))

\* ------------------------------------------------------ parquet snapshot
\* DataFrame.to_parquet(index=False): columns in frame order, index dropped
to_parquet(df) ==
    [i \in 1..Len(df) |->
        <<df[i].Date, df[i].Details, df[i].Amount, df[i].DebitCredit,
          df[i].Status, df[i].Category>>]

\* pd.read_parquet: a fresh RangeIndex over the stored rows
read_parquet(pq) ==
    [i \in 1..Len(pq) |->
        [Date |-> pq[i][1], Details |-> pq[i][2], Amount |-> pq[i][3],
         DebitCredit |-> pq[i][4], Status |-> pq[i][5], Category |-> pq[i][6]]]

\* ------------------------------------------------------ uploaded CSV files
Digits == {"0", "1", "2"}
DigitValue(c) == CASE c = "0" -> 0 [] c = "1" -> 1 [] c = "2" -> 2

\* Series.str.replace(",", "")
RemoveCommas(s) == SelectSeq(s, LAMBDA c : c # ",")

\* a cell pd.read_csv parses as a number by itself
IsNumericLiteral(s) == s # <<>> /\ \A i \in 1..Len(s) : s[i] \in Digits

RECURSIVE DigitsValue(_)
DigitsValue(s) ==
    IF s = <<>> THEN 0 ELSE 10 * DigitsValue(SubSeq(s, 1, Len(s) - 1)) + DigitValue(s[Len(s)])

\* astype(float) on one string: a number, or ValueError
IsFloat(s) == IsNumericLiteral(s)
ToFloat(s) == DigitsValue(s)

\* pd.to_datetime(..., format="%d %b %Y") on one string
DateTable == [x \in {"05 Jan 2024"} |-> <<2024, 1, 5>>]
IsDate(s) == s \in DOMAIN DateTable
ToDate(s) == DateTable[s]

\* col.strip() on a header cell
StripColumn(c) ==
    CASE c = "Amount " -> "Amount"
      [] c = " Details" -> "Details"
      [] OTHER -> c

HeaderPlain == <<"Date", "Details", "Amount", "Debit/Credit", "Status">>
HeaderPadded == <<"Date", " Details", "Amount ", "Debit/Credit", "Status">>
HeaderNoAmount == <<"Date", "Details", "Debit/Credit", "Status">>
Headers == {HeaderPlain, HeaderPadded, HeaderNoAmount}

RawRow(date, details, amount, dc) ==
    [Date |-> date, Details |-> details, Amount |-> amount,
     DebitCredit |-> dc, Status |-> "Settled"]

\* the cells of the uploaded rows: the first two rows are one transaction
\* written in two ways, the third is a payment, the last two do not parse
RawRows ==
    { RawRow("05 Jan 2024", <<"A", " ">>, <<"1", ",", "0">>, "Debit"),
      RawRow("05 Jan 2024", <<"A", " ">>, <<"1", "0">>, "Debit"),
      RawRow("05 Jan 2024", <<"a", "b">>, <<"2", ",", "0">>, "Credit"),
      RawRow("05 Jan 2024", <<"A", " ">>, <<"x">>, "Debit"),
      RawRow("2024-01-05", <<"A", " ">>, <<"1", ",", "0">>, "Debit") }

\* every batch under the plain header, the short ones under the others
Files ==
    {[columns |-> HeaderPlain, rows |-> r] : r \in SeqsUpTo(RawRows, MaxBatchLen)}
    \cup {[columns |-> h, rows |-> r] : h \in Headers, r \in SeqsUpTo(RawRows, 1)}

\* ------------------------------------------------ categorize_transactions
Normalized(s) == strip(lower(s))

SetCategory(df, index, category) ==
    [i \in 1..Len(df) |-> IF i \in index THEN [df[i] EXCEPT !.Category = category] ELSE df[i]]

\* the step with a first-match policy: rows already labelled are left alone
CategorizeStepFirstMatch(df, item) ==
    IF item.name = "Uncategorized" \/ item.keywords = <<>>
    THEN df
    ELSE LET lowered_keywords == {Normalized(item.keywords[k]) : k \in 1..Len(item.keywords)}
             index == {i \in 1..Len(df) :
                          /\ df[i].Category = "Uncategorized"
                          /\ Normalized(df[i].Details) \in lowered_keywords}
         IN  SetCategory(df, index, item.name)

\* one iteration of the loop of lines 43-50, for one dict item
CategorizeStep(df, item) ==
    IF item.name = "Uncategorized" \/ item.keywords = <<>>
    THEN df
    ELSE LET lowered_keywords == {Normalized(item.keywords[k]) : k \in 1..Len(item.keywords)}
             index == {i \in 1..Len(df) : Normalized(df[i].Details) \in lowered_keywords}
         IN  SetCategory(df, index, item.name)

RECURSIVE CategorizeLoop(_, _, _)
CategorizeLoop(df, cats, i) ==
    IF i > Len(cats) THEN df
    ELSE CategorizeLoop(CategorizeStep(df, cats[i]), cats, i + 1)

categorize_transactions(df, cats) ==
    CategorizeLoop(SetCategory(df, 1..Len(df), "Uncategorized"), cats, 1)

\* ------------------------------------------------------ load_transactions
StrippedColumns(file) == {StripColumn(file.columns[i]) : i \in 1..Len(file.columns)}

\* pd.read_csv infers a numeric dtype for a non-empty column whose cells
\* are all numbers; Series.str then raises AttributeError (line 59)
AmountIsStringColumn(file) ==
    file.rows = <<>> \/ \E i \in 1..Len(file.rows) : ~IsNumericLiteral(file.rows[i].Amount)

ParseOk(file) ==
    /\ "Amount" \in StrippedColumns(file)
    /\ AmountIsStringColumn(file)
    /\ \A i \in 1..Len(file.rows) : IsFloat(RemoveCommas(file.rows[i].Amount))
    /\ "Date" \in StrippedColumns(file)
    /\ \A i \in 1..Len(file.rows) : IsDate(file.rows[i].Date)
    /\ "Details" \in StrippedColumns(file)

ParsedRows(file) ==
    [i \in 1..Len(file.rows) |->
        [Date |-> ToDate(file.rows[i].Date),
         Details |-> file.rows[i].Details,
         Amount |-> ToFloat(RemoveCommas(file.rows[i].Amount)),
         DebitCredit |-> file.rows[i].DebitCredit,
         Status |-> file.rows[i].Status,
         Category |-> "Uncategorized"]]

\* returns the frame (or None) and whether st.error was called
load_transactions(file, cats) ==
    IF ParseOk(file)
    THEN [df |-> Some(categorize_transactions(ParsedRows(file), cats)), error |-> FALSE]
    ELSE [df |-> None, error |-> TRUE]

\* ---------------------------------------------------------------- save_csv
Identity(row) == <<row.Date, row.Details, row.Amount, row.DebitCredit, row.Status>>

\* DataFrame.drop_duplicates(subset=identity columns, keep="last")
drop_duplicates(df) ==
    LET kept(i) == \A j \in (i + 1)..Len(df) : Identity(df[j]) # Identity(df[i])
        F[i \in 0..Len(df)] ==
            IF i = 0 THEN <<>>
            ELSE IF kept(i) THEN Append(F[i - 1], df[i]) ELSE F[i - 1]
    IN  F[Len(df)]

\* pd.concat([a, b], ignore_index=True) of a frame a and b, a frame or None;
\* None entries are dropped
concat(a, b) == IF b = None THEN a ELSE a \o Val(b)

\* returns the new session frame, the new snapshot file, st.error and the
\* exception that left save_csv (NoException when it returned)
save_csv(file, cats, df, pq) ==
    LET loaded == load_transactions(file, cats)
        incoming_df == loaded.df
        merged == IF df # None
                  THEN Some(drop_duplicates(concat(Val(df), incoming_df)))
                  ELSE df
    IN  IF incoming_df = None
        THEN [dataframe |-> merged, parquet |-> pq, error |-> loaded.error,
              exception |-> "AttributeError"]
        ELSE [dataframe |-> merged, parquet |-> Some(to_parquet(Val(incoming_df))),
              error |-> loaded.error, exception |-> NoException]

\* ------------------------------------------------- add_keyword_to_category
\* returns the new dict and document, the return value ("True"/"False", or
\* "raised") and the exception raised
add_keyword_to_category(cats, file, category, keyword) ==
    LET kw == strip(keyword)
    IN  IF kw = <<>>
        THEN [categories |-> cats, catFile |-> file, ret |-> "False", exception |-> NoException]
        ELSE IF category \notin Keys(cats)
        THEN [categories |-> cats, catFile |-> file, ret |-> "raised", exception |-> "KeyError"]
        ELSE IF kw \in Range(Get(cats, category))
        THEN [categories |-> cats, catFile |-> file, ret |-> "False", exception |-> NoException]
        ELSE LET i == IndexOf(cats, category)
                 updated == [cats EXCEPT ![i].keywords = Append(@, kw)]
             IN  [categories |-> updated, catFile |-> save_categories(updated, file),
                  ret |-> "True", exception |-> NoException]

\* ------------------------------------------------------------ script runs
DefaultCategories == <<[name |-> "Uncategorized", keywords |-> <<>>]>>

\* names typed into "New Category Name"
NewCategoryNames == {"", "Uncategorized", "A", "B"}

\* rows of a frame with Debit/Credit == "Debit" (lines 92-94)
DebitRows(df) == SelectSeq(df, LAMBDA row : row.DebitCredit = "Debit")

\* the frames st.data_editor can return for the view: the user picks a
\* Category among the dict's keys for every row (lines 113-127)
EditedFrames(view, cats) ==
    {[i \in 1..Len(view) |-> [view[i] EXCEPT !.Category = choice[i]]] :
        choice \in [1..Len(view) -> Keys(cats)]}

\* the loop without the test of line 133: every row registers its keyword
RECURSIVE ApplyLoopNoSkip(_, _, _, _, _, _)
ApplyLoopNoSkip(i, edited, debits, cats, file, rets) ==
    IF i > Len(edited)
    THEN [debits_df |-> debits, categories |-> cats, catFile |-> file, ret |-> rets,
          exception |-> NoException]
    ELSE LET new_category == edited[i].Category
             details == edited[i].Details
             relabelled == [debits EXCEPT ![i].Category = new_category]
             r == add_keyword_to_category(cats, file, new_category, details)
         IN  IF r.exception # NoException
             THEN [debits_df |-> relabelled, categories |-> r.categories,
                   catFile |-> r.catFile, ret |-> Append(rets, r.ret),
                   exception |-> r.exception]
             ELSE ApplyLoopNoSkip(i + 1, edited, relabelled, r.categories, r.catFile,
                                  Append(rets, r.ret))

\* the loop of lines 131-138 from row i on
RECURSIVE ApplyLoop(_, _, _, _, _, _)
ApplyLoop(i, edited, debits, cats, file, rets) ==
    IF i > Len(edited)
    THEN [debits_df |-> debits, categories |-> cats, catFile |-> file, ret |-> rets,
          exception |-> NoException]
    ELSE LET new_category == edited[i].Category
         IN  IF new_category = debits[i].Category
             THEN ApplyLoop(i + 1, edited, debits, cats, file, rets)
             ELSE LET details == edited[i].Details
                      relabelled == [debits EXCEPT ![i].Category = new_category]
                      r == add_keyword_to_category(cats, file, new_category, details)
                  IN  IF r.exception # NoException
                      THEN [debits_df |-> relabelled, categories |-> r.categories,
                            catFile |-> r.catFile, ret |-> Append(rets, r.ret),
                            exception |-> r.exception]
                      ELSE ApplyLoop(i + 1, edited, relabelled, r.categories, r.catFile,
                                     Append(rets, r.ret))

Init ==
    /\ categories = None
    /\ catFile = Absent
    /\ dataframe = None
    /\ parquet = Absent
    /\ debits_df = None
    /\ edited_df = None
    /\ pc = "idle"
    /\ op = "none"
    /\ st_error = FALSE
    /\ exception = NoException
    /\ ret = <<>>
    /\ args = <<>>

\* a new browser session: st.session_state starts empty, the files stay
NewSession ==
    /\ pc = "idle"
    /\ categories # None
    /\ categories' = None
    /\ dataframe' = None
    /\ debits_df' = None
    /\ edited_df' = None
    /\ op' = "none"
    /\ st_error' = FALSE
    /\ exception' = NoException
    /\ ret' = <<>>
    /\ UNCHANGED <<catFile, parquet, pc, args>>

\* lines 172-185, at the start of every script run
ModuleLoad ==
    /\ pc \in {"idle", "rerun"}
    /\ categories' = IF catFile # Absent THEN Some(json_load(Val(catFile)))
                     ELSE IF categories = None THEN Some(DefaultCategories)
                     ELSE categories
    /\ dataframe' = IF parquet # Absent THEN Some(read_parquet(Val(parquet))) ELSE dataframe
    /\ pc' = IF pc = "idle" THEN "main" ELSE "rerun_main"
    /\ UNCHANGED <<catFile, parquet, debits_df, edited_df, op, st_error, exception, ret, args>>

\* main() when the upload form was submitted with a file (lines 87-89)
Upload(file) ==
    /\ pc = "main"
    /\ LET r == save_csv(file, Val(categories), dataframe, parquet)
       IN  /\ dataframe' = r.dataframe
           /\ parquet' = r.parquet
           /\ st_error' = r.error
           /\ exception' = r.exception
           /\ pc' = IF r.exception = NoException THEN "rerun" ELSE "idle"
    /\ op' = "upload"
    /\ edited_df' = None
    /\ ret' = <<>>
    /\ UNCHANGED <<categories, catFile, debits_df, args>>

\* main() when no button was pressed: only the views are rebuilt
Render ==
    /\ pc \in {"main", "rerun_main"}
    /\ debits_df' = IF dataframe # None THEN Some(DebitRows(Val(dataframe))) ELSE debits_df
    /\ pc' = "idle"
    /\ op' = "render"
    /\ edited_df' = None
    /\ st_error' = FALSE
    /\ exception' = NoException
    /\ ret' = <<>>
    /\ UNCHANGED <<categories, catFile, dataframe, parquet, args>>

\* main() when "Add Category" was pressed (lines 103-110)
AddCategory(new_category) ==
    /\ pc = "main"
    /\ dataframe # None
    /\ debits_df' = Some(DebitRows(Val(dataframe)))
    /\ IF new_category # "" /\ new_category \notin Keys(Val(categories))
       THEN LET added == Append(Val(categories), [name |-> new_category, keywords |-> <<>>])
            IN  /\ categories' = Some(added)
                /\ catFile' = save_categories(added, catFile)
                /\ pc' = "rerun"
       ELSE /\ UNCHANGED <<categories, catFile>>
            /\ pc' = "idle"
    /\ op' = "add_category"
    /\ edited_df' = None
    /\ st_error' = FALSE
    /\ exception' = NoException
    /\ ret' = <<>>
    /\ UNCHANGED <<dataframe, parquet, args>>

\* what the editor can hold when main() reaches it
EditorValues ==
    IF pc = "main" /\ dataframe # None
    THEN EditedFrames(DebitRows(Val(dataframe)), Val(categories))
    ELSE {}

\* main() when "Apply Changes" was pressed with the editor holding edited
\* (lines 129-138)
ApplyChanges(edited) ==
    /\ pc = "main"
    /\ dataframe # None
    /\ LET r == ApplyLoop(1, edited, DebitRows(Val(dataframe)), Val(categories), catFile, <<>>)
       IN  /\ debits_df' = Some(r.debits_df)
           /\ categories' = Some(r.categories)
           /\ catFile' = r.catFile
           /\ ret' = r.ret
           /\ exception' = r.exception
    /\ edited_df' = Some(edited)
    /\ pc' = "idle"
    /\ op' = "apply"
    /\ st_error' = FALSE
    /\ UNCHANGED <<dataframe, parquet, args>>

Next ==
    \/ NewSession
    \/ ModuleLoad
    \/ \E file \in Files : Upload(file)
    \/ Render
    \/ \E new_category \in NewCategoryNames : AddCategory(new_category)
    \/ \E edited \in EditorValues : ApplyChanges(edited)

Spec == Init /\ [][Next]_vars

\* ------------------------------------------- functions called on their own
\* category documents a session can have loaded: key orders and keyword lists
ApiOrders ==
    { <<"Uncategorized">>,
      <<"Uncategorized", "A">>,
      <<"Uncategorized", "A", "B">>,
      <<"B", "Uncategorized", "A">> }

StoredKeywords == { <<"a">>, <<" ", "A">>, <<"a", "b">> }

\* keyword lists without repetitions
KeywordLists ==
    {l \in SeqsUpTo(StoredKeywords, MaxKeywords) : Cardinality(Range(l)) = Len(l)}

ApiMappings ==
    UNION {{[i \in 1..Len(order) |-> [name |-> order[i], keywords |-> kws[i]]] :
               kws \in [1..Len(order) -> KeywordLists]} : order \in ApiOrders}

ApiCategoryNames == {"Uncategorized", "A", "B"}

ApiKeywords == { <<>>, <<" ">>, <<"a">>, <<" ", "A", " ">>, <<"a", "b">> }

InitApi ==
    /\ categories \in {Some(m) : m \in ApiMappings}
    /\ catFile \in {Absent, Some(json_dump(Val(categories)))}
    /\ dataframe = None
    /\ parquet = Absent
    /\ debits_df = None
    /\ edited_df = None
    /\ pc = "call"
    /\ op = "none"
    /\ st_error = FALSE
    /\ exception = NoException
    /\ ret = <<>>
    /\ args = <<>>

\* add_keyword_to_category(category, keyword) on the session's dict
CallAddKeyword(category, keyword) ==
    /\ pc = "call"
    /\ LET r == add_keyword_to_category(Val(categories), catFile, category, keyword)
       IN  /\ categories' = Some(r.categories)
           /\ catFile' = r.catFile
           /\ ret' = <<r.ret>>
           /\ exception' = r.exception
    /\ args' = <<category, keyword>>
    /\ op' = "add_keyword_to_category"
    /\ pc' = "returned"
    /\ UNCHANGED <<dataframe, parquet, debits_df, edited_df, st_error>>

\* load_transactions(file), whose result is kept in dataframe
CallLoadTransactions(file) ==
    /\ pc = "call"
    /\ LET r == load_transactions(file, Val(categories))
       IN  /\ dataframe' = r.df
           /\ st_error' = r.error
    /\ args' = <<file>>
    /\ op' = "load_transactions"
    /\ pc' = "returned"
    /\ UNCHANGED <<categories, catFile, parquet, debits_df, edited_df, exception, ret>>

NextApi ==
    \/ \E category \in ApiCategoryNames, keyword \in ApiKeywords :
           CallAddKeyword(category, keyword)
    \/ \E file \in Files : CallLoadTransactions(file)

SpecApi == InitApi /\ [][NextApi]_vars

\* ================================================================= claims
Identities(df) == {Identity(df[i]) : i \in 1..Len(df)}

Occurrences(df, id) == Cardinality({i \in 1..Len(df) : Identity(df[i]) = id})

\* the ledger the rerun after the import reloads
ReloadedLedger(pq) == read_parquet(Val(pq))

\* C1: when a batch is imported into a ledger that holds an earlier batch,
\* the ledger reloaded by the rerun holds every transaction of the earlier
\* batch exactly once per identity tuple
C1_ImportKeepsEveryTransactionOnce ==
    [][(pc = "main" /\ op' = "upload" /\ exception' = NoException /\ dataframe # None) =>
          \A id \in Identities(Val(dataframe)) :
              Occurrences(ReloadedLedger(parquet'), id) = 1]_vars

\* positions of the categories whose keywords hold the Details as a whole
\* value after lower-casing and trimming both
MatchingCategories(details, cats) ==
    {i \in 1..Len(cats) :
        /\ cats[i].name # "Uncategorized"
        /\ \E k \in 1..Len(cats[i].keywords) :
               strip(lower(cats[i].keywords[k])) = strip(lower(details))}

Last(S) == CHOOSE i \in S : \A j \in S : j <= i

ExpectedLabel(details, cats) ==
    IF MatchingCategories(details, cats) = {}
    THEN "Uncategorized"
    ELSE cats[Last(MatchingCategories(details, cats))].name

\* C2: every row load_transactions returns is labelled with the last
\* category in listing order whose keywords contain its Details as a whole
\* value (case and surrounding blanks ignored), else "Uncategorized"
C2_LabelIsLastMatchingCategory ==
    (op = "load_transactions" /\ dataframe # None) =>
        \A i \in 1..Len(Val(dataframe)) :
            Val(dataframe)[i].Category =
                ExpectedLabel(Val(dataframe)[i].Details, Val(categories))

\* a row matched by two categories carries the later one, next to a row whose
\* Details only contains a keyword and stays Uncategorized
C2_Witness ==
    /\ op = "load_transactions"
    /\ dataframe # None
    /\ \E i \in 1..Len(Val(dataframe)) :
           /\ Cardinality(MatchingCategories(Val(dataframe)[i].Details, Val(categories))) = 2
           /\ Val(dataframe)[i].Category = "A"
           /\ Val(categories)[1].name = "B"
    /\ \E i \in 1..Len(Val(dataframe)) :
           /\ Val(dataframe)[i].Details = <<"a", "b">>
           /\ Val(dataframe)[i].Category = "Uncategorized"
           /\ \E c \in 1..Len(Val(categories)) : <<"a">> \in Range(Val(categories)[c].keywords)

\* C3: the mapping always has the key "Uncategorized" with no keywords
C3_UncategorizedHasNoKeywords ==
    categories # None =>
        /\ "Uncategorized" \in Keys(Val(categories))
        /\ Get(Val(categories), "Uncategorized") = <<>>

\* the calls the contract rejects
Rejected(cats, category, keyword) ==
    \/ strip(keyword) = <<>>
    \/ category \notin Keys(cats)
    \/ strip(keyword) \in Range(Get(cats, category))

\* C4: add_keyword_to_category returns False without raising and changes
\* neither the dict nor the document when the trimmed keyword is empty, the
\* category is missing or the keyword is already listed; otherwise it
\* appends the trimmed keyword to that category, persists and returns True
C4_AddKeywordContract ==
    [][\A category \in ApiCategoryNames, keyword \in ApiKeywords :
          CallAddKeyword(category, keyword) =>
              IF Rejected(Val(categories), category, keyword)
              THEN /\ ret' = <<"False">>
                   /\ exception' = NoException
                   /\ categories' = categories
                   /\ catFile' = catFile
              ELSE /\ ret' = <<"True">>
                   /\ exception' = NoException
                   /\ categories' =
                          Some([Val(categories) EXCEPT
                                   ![IndexOf(Val(categories), category)].keywords =
                                       Append(@, strip(keyword))])
                   /\ catFile' # Absent
                   /\ json_load(Val(catFile')) = Val(categories')]_vars

\* a successful change to the category store just completed
StoreChanged ==
    \/ pc = "rerun" /\ op = "add_category"
    \/ op = "apply" /\ "True" \in Range(ret)

\* every item of the old mapping is in the new one, at the same position,
\* with its keywords as a prefix
Extends(new, old) ==
    /\ Len(old) <= Len(new)
    /\ \A i \in 1..Len(old) :
           /\ new[i].name = old[i].name
           /\ Len(old[i].keywords) <= Len(new[i].keywords)
           /\ SubSeq(new[i].keywords, 1, Len(old[i].keywords)) = old[i].keywords

\* C5: after every successful add-category or add-keyword the document
\* exists and loads to the in-memory mapping; a session that holds a mapping
\* never differs from the document, and the document only ever grows
C5_StoreChangeIsPersisted ==
    /\ [](StoreChanged => (catFile # Absent /\ categories # None))
    /\ []((catFile # Absent /\ categories # None) =>
              json_load(Val(catFile)) = Val(categories))
    /\ [][catFile # Absent =>
              (catFile' # Absent /\ Extends(json_load(Val(catFile')), json_load(Val(catFile))))]_vars

\* a correction added a keyword to the second of two user categories and the
\* document holds it
C5_Witness ==
    /\ op = "apply"
    /\ "True" \in Range(ret)
    /\ categories # None
    /\ Len(Val(categories)) = 3
    /\ Val(categories)[3].keywords # <<>>
    /\ catFile = Some(json_dump(Val(categories)))

\* C6: a rejected import leaves the in-memory ledger and the snapshot as
\* they were and ends without an uncaught exception
C6_RejectedImportIsHarmless ==
    [][(pc = "main" /\ op' = "upload" /\ st_error') =>
          /\ dataframe' = dataframe
          /\ parquet' = parquet
          /\ exception' = NoException]_vars

\* rows of the editor whose Category differs from the view's
ChangedRows ==
    {i \in 1..Len(Val(edited_df)) :
        Val(edited_df)[i].Category # DebitRows(Val(dataframe))[i].Category}

\* C7: after a correction of one row to category C, categorizing a
\* transaction with that row's Details yields C
C7_CorrectionDrivesCategorization ==
    (pc = "idle" /\ op = "apply" /\ Cardinality(ChangedRows) = 1) =>
        \A i \in ChangedRows :
            categorize_transactions(<<Val(edited_df)[i]>>, Val(categories))[1].Category
                = Val(edited_df)[i].Category

\* C8: Apply Changes leaves the session ledger and the snapshot alone; the
\* Debit view is the ledger's Debit rows with only the Category of the
\* edited rows replaced; with no edited row the category store is untouched;
\* and the view built by a plain rerun carries the snapshot's labels
C8_CorrectionOnlyTouchesViewAndStore ==
    /\ [][(pc = "main" /\ op' = "apply") =>
             LET view == DebitRows(Val(dataframe))
                 edited == Val(edited_df')
                 changed == {i \in 1..Len(view) : edited[i].Category # view[i].Category}
             IN  /\ dataframe' = dataframe
                 /\ parquet' = parquet
                 /\ Len(Val(debits_df')) = Len(view)
                 /\ \A i \in 1..Len(view) :
                        Val(debits_df')[i] =
                            IF i \in changed
                            THEN [view[i] EXCEPT !.Category = edited[i].Category]
                            ELSE view[i]
                 /\ changed = {} => (categories' = categories /\ catFile' = catFile)]_vars
    /\ []((pc = "idle" /\ op = "render" /\ parquet # Absent) =>
              debits_df = Some(DebitRows(read_parquet(Val(parquet)))))

\* a correction relabelled a row of the view and registered its keyword
\* while the ledger and the snapshot still carry the old label
C8_Witness ==
    /\ op = "apply"
    /\ "True" \in Range(ret)
    /\ parquet # Absent
    /\ dataframe = Some(read_parquet(Val(parquet)))
    /\ \E i \in 1..Len(Val(debits_df)) :
           Val(debits_df)[i].Category # DebitRows(Val(dataframe))[i].Category

\* C9: no keyword, compared after lower-casing and trimming, is listed
\* under two different categories
C9_KeywordInOneCategoryOnly ==
    categories # None =>
        \A i, j \in 1..Len(Val(categories)) :
            i # j =>
                \A k \in 1..Len(Val(categories)[i].keywords),
                   l \in 1..Len(Val(categories)[j].keywords) :
                    Normalized(Val(categories)[i].keywords[k])
                        # Normalized(Val(categories)[j].keywords[l])

\* C10: when a successful import completes, the snapshot holds the same
\* transactions as the merged ledger in memory
C10_SnapshotEqualsMergedLedger ==
    (pc = "rerun" /\ op = "upload" /\ dataframe # None) =>
        /\ parquet # Absent
        /\ Range(read_parquet(Val(parquet))) = Range(Val(dataframe))

====
